---- MODULE Spec2Model ----
(***************************************************************************)
(* Model of the checkpointed ingestion engine                              *)
(* (SecurityImageAnalysis/labels_to_graph.py) and of the paginating video  *)
(* query handler (lambda-functions/last5Videos_v3.py).                     *)
(*                                                                         *)
(* Dates are day numbers (day d stands for one 'YYYY-MM-DD' string, the    *)
(* previous calendar day is d - 1), timestamps are naturals, and           *)
(* datetime.fromtimestamp(ts).strftime('%Y-%m-%d') is ts \div TsPerDay.    *)
(* The DynamoDB store follows the documented Limit rule: a page holds the  *)
(* first Limit items of the key range, and LastEvaluatedKey is returned    *)
(* exactly when Limit items were evaluated.                                *)
(***************************************************************************)
EXTENDS Integers, Sequences, FiniteSets, TLC

\* ------------------------------------------------------------------ bounds
TsPerDay == 2
MaxRecords == 3
MaxBatch == 2
MaxVideos == 3
MaxNumResults == 3
\* the Limit of a filtered query (100 at line 266 of last5Videos_v3.py),
\* scaled to the size of the model's partitions
FilterLimit == 2
\* turns of the handler's while loop the model follows
MaxRequests == 8

\* "NOT SET", the capture date process_response_items starts from
NotSet == 0

\* ---- the label table's universe
Days == 1..2
LabelNames == 1..2
Timestamps == 3..6
LastDay == CHOOSE d \in Days : \A e \in Days : e <= d
KeyBase == 1 + CHOOSE t \in Timestamps : \A u \in Timestamps : u <= t

VARIABLES
    today,          \* the current calendar day (time.time / datetime.now)
    \* ---- ingestion engine (labels_to_graph.py)
    labels,         \* the label table: records [capture_date, event_ts, label]
    items_per_batch,
    blob,           \* the checkpoint object in S3: <<>> (absent) or <<checkpoint>>
    pc,             \* position of main
    checkpoint,     \* main's / get_query_items_since_checkpoint's checkpoint
    response,       \* the last scan or query response
    max_values,     \* the running maximum
    sink,           \* records handed to process_row_to_graph
    cycle_sink,     \* records handed over by the current catch-up call
    redelivered,    \* records the current cycle handed to the sink a second time
    bootstrapped,   \* this iteration of main took the full-load branch
    passed_over,    \* undelivered records a stall advance moved the checkpoint past
    \* ---- video query handler (last5Videos_v3.py)
    videos,         \* the items of security_alarm_videos / security_video_timeline
    event,          \* the request: path and query-string parameters
    hpc,            \* position of lambda_handler
    video_date,
    older_than_ts,
    ddb_response,
    consolidated_response,
    request_num,
    left_to_fetch,
    fetch_more_than_one,
    queries,        \* the partitions queried so far, in order
    \* ---- a second instance of the engine, started against the same table
    \* ---- and the same checkpoint object
    peer,           \* its pc, checkpoint, response and max_values
    \* ---- the uploader's start (ftpfiletos3.py)
    pidfile,        \* the file app_pid_file: <<>> (absent) or <<content>>
    uploader,       \* per process: position of main, create_pid_file's result
    \* ---- camera-info.json (security_cam_video_added.py)
    camera_info,    \* the object's 'camera-last-video' map
    invocation      \* per invocation: position, camera, event_ts, its copy

ingestVars == <<labels, items_per_batch, blob, pc, checkpoint, response,
                max_values, sink, cycle_sink, redelivered, bootstrapped,
                passed_over>>

fetchVars == <<videos, event, hpc, video_date, older_than_ts, ddb_response,
               consolidated_response, request_num, left_to_fetch,
               fetch_more_than_one, queries>>

peerVars == <<peer>>

pidVars == <<pidfile, uploader>>

metaVars == <<camera_info, invocation>>

restVars == <<peerVars, pidVars, metaVars>>

vars == <<today, ingestVars, fetchVars, restVars>>

\* ------------------------------------------------------- the label records
\* write_labels_to_dynamo: capture_date comes from the object key's path,
\* event_ts from the camera's metadata or from the upload time, so a record
\* of day d carries a timestamp of day d or, for a late upload, of day d + 1.
DateOf(ts) == ts \div TsPerDay

LabelRecords ==
    { r \in [capture_date : Days, event_ts : Timestamps, label : LabelNames] :
        DateOf(r.event_ts) \in {r.capture_date, r.capture_date + 1} }

\* order of the capture_date-event_ts-index: partition, sort key, primary key
IndexKey(r) == (r.capture_date * KeyBase + r.event_ts) * (Cardinality(LabelNames) + 1) + r.label

\* order of a scan of the table itself (by primary key)
TableKey(r) == (r.label * KeyBase + r.event_ts) * (LastDay + 1) + r.capture_date

RECURSIVE SortByIndexKey(_)
SortByIndexKey(S) ==
    IF S = {} THEN <<>>
    ELSE LET m == CHOOSE r \in S : \A q \in S : IndexKey(r) <= IndexKey(q)
         IN  <<m>> \o SortByIndexKey(S \ {m})

RECURSIVE SortByTableKey(_)
SortByTableKey(S) ==
    IF S = {} THEN <<>>
    ELSE LET m == CHOOSE r \in S : \A q \in S : TableKey(r) <= TableKey(q)
         IN  <<m>> \o SortByTableKey(S \ {m})

Range(s) == { s[i] : i \in 1..Len(s) }

NoResponse == [Items |-> <<>>, Count |-> 0, LastEvaluatedKey |-> <<>>]

\* One page of a DynamoDB scan or query: `rows` is the ordered key range
\* left after ExclusiveStartKey, `keep` the rows that pass FilterExpression,
\* which DynamoDB applies after Limit.
Page(rows, limit, keep) ==
    LET n == IF Len(rows) < limit THEN Len(rows) ELSE limit
        items == SelectSeq(SubSeq(rows, 1, n), LAMBDA r : r \in keep)
    IN  [Items |-> items,
         Count |-> Len(items),
         LastEvaluatedKey |-> IF Len(rows) >= limit THEN <<rows[n]>> ELSE <<>>]

\* vid_table.scan(...) of the table
TableScan(start, limit, filtered) ==
    LET rows == SortByTableKey({ r \in labels :
                    start = <<>> \/ TableKey(r) > TableKey(start[1]) })
    IN  Page(rows, limit,
             IF filtered THEN { r \in labels : "capture_date" \notin DOMAIN r }
                         ELSE labels)

\* the index scan with the first table scan's FilterExpression
IndexScan_filtered(start, limit) ==
    LET rows == SortByIndexKey({ r \in labels :
                    start = <<>> \/ IndexKey(r) > IndexKey(start[1]) })
    IN  Page(rows, limit, { r \in labels : "capture_date" \notin DOMAIN r })

\* vid_table.scan(IndexName='capture_date-event_ts-index', ...)
IndexScan(start, limit) ==
    LET rows == SortByIndexKey({ r \in labels :
                    start = <<>> \/ IndexKey(r) > IndexKey(start[1]) })
    IN  Page(rows, limit, labels)

\* vid_table.query(capture_date = cp.max_capture_date AND event_ts > cp.max_timestamp)
IndexQuery(cp, start, limit) ==
    LET rows == SortByIndexKey({ r \in labels :
                    /\ r.capture_date = cp.max_capture_date
                    /\ r.event_ts > cp.max_timestamp
                    /\ (start = <<>> \/ IndexKey(r) > IndexKey(start[1])) })
    IN  Page(rows, limit, labels)

\* ------------------------------------------------- process_response_items
EmptyMax == [max_timestamp |-> 0, max_capture_date |-> NotSet]

\* the running maximum with the comparison of line 183 turned round
RECURSIVE FoldMax_reversed(_, _)
FoldMax_reversed(items, mv) ==
    IF items = <<>> THEN mv
    ELSE LET item == Head(items)
         IN  FoldMax_reversed(Tail(items),
                     IF item.event_ts < mv.max_timestamp
                     THEN [max_timestamp |-> item.event_ts,
                           max_capture_date |-> item.capture_date]
                     ELSE mv)

RECURSIVE FoldMax(_, _)
FoldMax(items, mv) ==
    IF items = <<>> THEN mv
    ELSE LET item == Head(items)
         IN  FoldMax(Tail(items),
                     IF item.event_ts > mv.max_timestamp
                     THEN [max_timestamp |-> item.event_ts,
                           max_capture_date |-> item.capture_date]
                     ELSE mv)

process_response_items(resp, mv) == FoldMax(resp.Items, mv)


\* -------------------------------------------------------------- the engine
\* The checkpoints an earlier run of the engine can have left behind: the
\* key of a processed record, or such a key (or the empty scan's "0") moved
\* to a later day by the day-boundary rule.
LeftBehind(store, now) ==
    { cp \in [max_timestamp : {0} \cup { r.event_ts : r \in store },
              max_capture_date : 1..now] :
        \/ \E r \in store : /\ r.event_ts = cp.max_timestamp
                            /\ r.capture_date = cp.max_capture_date
        \/ cp.max_capture_date > DateOf(cp.max_timestamp) }

\* a checkpoint object whose body json.loads rejects (line 161)
Unparseable == [max_timestamp |-> -1, max_capture_date |-> -1]

\* no second instance, no uploader and no video-added invocation is running
Processes == 1..2
Invocations == 1..2

PeerOff == [pc |-> "off", checkpoint |-> <<>>, response |-> NoResponse,
            max_values |-> EmptyMax]

RestIdle ==
    /\ peer = PeerOff
    /\ pidfile = <<>>
    /\ uploader = [p \in Processes |-> [pc |-> "off", created |-> <<>>]]
    /\ camera_info = <<>>
    /\ invocation = [i \in Invocations |-> [pc |-> "off"]]

\* no request is in progress
HandlerIdle ==
    /\ videos = {}
    /\ event = <<>>
    /\ hpc = "idle"
    /\ video_date = <<>>
    /\ older_than_ts = <<>>
    /\ ddb_response = NoResponse
    /\ consolidated_response = NoResponse
    /\ request_num = 0
    /\ left_to_fetch = 0
    /\ fetch_more_than_one = FALSE
    /\ queries = <<>>

InitIngest ==
    /\ HandlerIdle
    /\ RestIdle
    /\ labels \in { S \in SUBSET LabelRecords : Cardinality(S) <= MaxRecords }
    /\ items_per_batch \in {1, MaxBatch}
    /\ today \in { d \in 1..(LastDay + 1) :
                     \A r \in labels : /\ r.capture_date <= d
                                       /\ DateOf(r.event_ts) <= d }
    /\ blob \in {<<>>, <<Unparseable>>} \cup { <<cp>> : cp \in LeftBehind(labels, today) }
    /\ pc = "fetch"
    /\ checkpoint = <<>>
    /\ response = NoResponse
    /\ max_values = EmptyMax
    /\ sink = {}
    /\ cycle_sink = {}
    /\ redelivered = {}
    /\ bootstrapped = FALSE
    /\ passed_over = {}

\* fetch_checkpoint and the branch of main on its result (lines 24-25)
fetch_checkpoint ==
    /\ pc = "fetch"
    /\ blob # <<Unparseable>>
    /\ checkpoint' = blob
    /\ bootstrapped' = (blob = <<>>)
    /\ pc' = IF blob = <<>> THEN "full_first" ELSE "query_first"
    /\ response' = NoResponse
    /\ max_values' = EmptyMax
    /\ cycle_sink' = {}
    /\ UNCHANGED <<fetchVars, restVars>>
    /\ redelivered' = {}
    /\ UNCHANGED <<today, passed_over, labels, items_per_batch, blob, sink>>

\* fetch_checkpoint when the get of an existing object raises ClientError
\* (throttling, access denied): the except clause logs, the function returns
\* None and main takes the full-load branch (lines 162-165, 25)
fetch_checkpoint_client_error ==
    /\ pc = "fetch"
    /\ blob # <<>>
    /\ checkpoint' = <<>>
    /\ bootstrapped' = TRUE
    /\ pc' = "full_first"
    /\ response' = NoResponse
    /\ max_values' = EmptyMax
    /\ cycle_sink' = {}
    /\ UNCHANGED <<fetchVars, restVars>>
    /\ redelivered' = {}
    /\ UNCHANGED <<today, passed_over, labels, items_per_batch, blob, sink>>

\* fetch_checkpoint when json.loads raises ValueError (line 161): only
\* ClientError is caught, the exception leaves main and the process ends
fetch_checkpoint_value_error ==
    /\ pc = "fetch"
    /\ blob = <<Unparseable>>
    /\ pc' = "down"
    /\ UNCHANGED <<fetchVars, restVars>>
    /\ UNCHANGED <<today, passed_over, labels, items_per_batch, blob, checkpoint, response,
                   max_values, sink, cycle_sink, redelivered, bootstrapped>>

\* get_full_scan_data, first scan (lines 56-62): the only one with
\* FilterExpression='attribute_not_exists(capture_date)'
get_full_scan_data_first ==
    /\ pc = "full_first"
    /\ LET resp == TableScan(<<>>, items_per_batch, TRUE)
       IN  /\ sink' = sink \cup Range(resp.Items)
           /\ redelivered' = redelivered \cup (Range(resp.Items) \cap sink)
           /\ response' = resp
           /\ pc' = IF resp.LastEvaluatedKey # <<>> THEN "full_more" ELSE "index_first"
    /\ UNCHANGED <<fetchVars, restVars>>
    /\ UNCHANGED <<today, passed_over, labels, items_per_batch, blob, checkpoint, max_values,
                   cycle_sink, bootstrapped>>

\* get_full_scan_data, one turn of the while loop (lines 63-71)
get_full_scan_data_more ==
    /\ pc = "full_more"
    /\ LET resp == TableScan(response.LastEvaluatedKey, items_per_batch, FALSE)
       IN  /\ sink' = sink \cup Range(resp.Items)
           /\ redelivered' = redelivered \cup (Range(resp.Items) \cap sink)
           /\ response' = resp
           /\ pc' = IF resp.LastEvaluatedKey # <<>> THEN "full_more" ELSE "index_first"
    /\ UNCHANGED <<fetchVars, restVars>>
    /\ UNCHANGED <<today, passed_over, labels, items_per_batch, blob, checkpoint, max_values,
                   cycle_sink, bootstrapped>>

\* get_scan_with_capture_date, first scan (lines 84-90); when the loop is
\* not entered the function returns max_values to main (lines 105, 39)
get_scan_with_capture_date_first ==
    /\ pc = "index_first"
    /\ LET resp == IndexScan(<<>>, items_per_batch)
           mv   == process_response_items(resp, EmptyMax)
       IN  /\ sink' = sink \cup Range(resp.Items)
           /\ redelivered' = redelivered \cup (Range(resp.Items) \cap sink)
           /\ response' = resp
           /\ max_values' = mv
           /\ IF resp.LastEvaluatedKey # <<>>
              THEN pc' = "index_more" /\ checkpoint' = checkpoint
              ELSE pc' = "query_first" /\ checkpoint' = <<mv>>
    /\ UNCHANGED <<fetchVars, restVars>>
    /\ UNCHANGED <<today, passed_over, labels, items_per_batch, blob, cycle_sink, bootstrapped>>

\* get_scan_with_capture_date, one turn of the while loop (lines 91-102):
\* the only place of the bootstrap that writes the checkpoint
get_scan_with_capture_date_more ==
    /\ pc = "index_more"
    /\ LET resp == IndexScan(response.LastEvaluatedKey, items_per_batch)
           mv   == process_response_items(resp, max_values)
       IN  /\ sink' = sink \cup Range(resp.Items)
           /\ redelivered' = redelivered \cup (Range(resp.Items) \cap sink)
           /\ response' = resp
           /\ max_values' = mv
           /\ blob' = <<mv>>
           /\ IF resp.LastEvaluatedKey # <<>>
              THEN pc' = "index_more" /\ checkpoint' = checkpoint
              ELSE pc' = "query_first" /\ checkpoint' = <<mv>>
    /\ UNCHANGED <<fetchVars, restVars>>
    /\ UNCHANGED <<today, passed_over, labels, items_per_batch, cycle_sink, bootstrapped>>

\* lines 122-136: zero items and the timestamp's date is not today's
day_boundary(resp, mv, now_date) ==
    IF Len(resp.Items) = 0 /\ DateOf(mv.max_timestamp) # now_date
    THEN [mv EXCEPT !.max_capture_date = now_date]
    ELSE mv

\* the records of the table, not yet in the graph, that lie between the
\* checkpoint cp a catch-up call read and the checkpoint mv it put: in a day
\* after cp's and before mv's, or in mv's day at or below its timestamp
PassedOver(cp, mv) ==
    IF mv.max_capture_date = cp.max_capture_date THEN {}
    ELSE { r \in labels \ sink :
             \/ /\ cp.max_capture_date # NotSet
                /\ r.capture_date > cp.max_capture_date
                /\ r.capture_date < mv.max_capture_date
             \/ /\ r.capture_date = mv.max_capture_date
                /\ r.event_ts <= mv.max_timestamp }

\* get_query_items_since_checkpoint up to its first put (lines 113-137)
get_query_items_since_checkpoint_first ==
    /\ pc = "query_first"
    /\ LET resp == IndexQuery(checkpoint[1], <<>>, items_per_batch)
           mv   == day_boundary(resp, process_response_items(resp, checkpoint[1]), today)
       IN  /\ sink' = sink \cup Range(resp.Items)
           /\ redelivered' = redelivered \cup (Range(resp.Items) \cap sink)
           /\ cycle_sink' = Range(resp.Items)
           /\ response' = resp
           /\ max_values' = mv
           /\ blob' = <<mv>>
           /\ passed_over' = passed_over \cup PassedOver(checkpoint[1], mv)
           /\ pc' = IF resp.LastEvaluatedKey # <<>> THEN "query_more" ELSE "sleep"
    /\ UNCHANGED <<fetchVars, restVars>>
    /\ UNCHANGED <<today, labels, items_per_batch, checkpoint, bootstrapped>>

\* get_query_items_since_checkpoint, one turn of the while loop (lines 138-150)
get_query_items_since_checkpoint_more ==
    /\ pc = "query_more"
    /\ LET resp == IndexQuery(checkpoint[1], response.LastEvaluatedKey, items_per_batch)
           mv   == process_response_items(resp, checkpoint[1])
       IN  /\ sink' = sink \cup Range(resp.Items)
           /\ redelivered' = redelivered \cup (Range(resp.Items) \cap sink)
           /\ cycle_sink' = cycle_sink \cup Range(resp.Items)
           /\ response' = resp
           /\ max_values' = mv
           /\ blob' = <<mv>>
           /\ pc' = IF resp.LastEvaluatedKey # <<>> THEN "query_more" ELSE "sleep"
    /\ UNCHANGED <<fetchVars, restVars>>
    /\ UNCHANGED <<today, passed_over, labels, items_per_batch, checkpoint, bootstrapped>>

\* time.sleep(300) and the next turn of main's loop (lines 48, 23)
main_sleep ==
    /\ pc = "sleep"
    /\ pc' = "fetch"
    /\ UNCHANGED <<fetchVars, restVars>>
    /\ UNCHANGED <<today, passed_over, labels, items_per_batch, blob, checkpoint, response,
                   max_values, sink, cycle_sink, redelivered, bootstrapped>>

\* the response the engine is about to process at its current position
NextResponse ==
    CASE pc = "full_first"  -> TableScan(<<>>, items_per_batch, TRUE)
      [] pc = "full_more"   -> TableScan(response.LastEvaluatedKey, items_per_batch, FALSE)
      [] pc = "index_first" -> IndexScan(<<>>, items_per_batch)
      [] pc = "index_more"  -> IndexScan(response.LastEvaluatedKey, items_per_batch)
      [] pc = "query_first" -> IndexQuery(checkpoint[1], <<>>, items_per_batch)
      [] pc = "query_more"  ->
            IndexQuery(checkpoint[1], response.LastEvaluatedKey, items_per_batch)
      [] OTHER -> NoResponse

\* process_row_to_graph raises on item k + 1 of a batch (lines 190, 239-248):
\* nothing catches it, the first k items are in the graph and the process ends
sink_failure ==
    /\ pc \in {"full_first", "full_more", "index_first", "index_more",
               "query_first", "query_more"}
    /\ \E k \in 0..(Len(NextResponse.Items) - 1) :
          LET done == Range(SubSeq(NextResponse.Items, 1, k))
          IN  /\ sink' = sink \cup done
              /\ redelivered' = redelivered \cup (done \cap sink)
              /\ cycle_sink' = IF pc = "query_first" THEN done
                               ELSE IF pc = "query_more" THEN cycle_sink \cup done
                               ELSE cycle_sink
    /\ pc' = "down"
    /\ UNCHANGED <<fetchVars, restVars>>
    /\ UNCHANGED <<today, passed_over, labels, items_per_batch, blob, checkpoint, response,
                   max_values, bootstrapped>>

\* item k + 1 of a batch lacks 'object_key', 'label' or 'confidence'
\* (KeyError at line 190) or has an object key the parsers cannot split
\* (IndexError at lines 257, 276): nothing catches it, the first k items are
\* in the graph and the process ends
malformed_record ==
    /\ pc \in {"full_first", "full_more", "index_first", "index_more",
               "query_first", "query_more"}
    /\ \E k \in 0..(Len(NextResponse.Items) - 1) :
          LET before == Range(SubSeq(NextResponse.Items, 1, k))
          IN  /\ sink' = sink \cup before
              /\ redelivered' = redelivered \cup (before \cap sink)
              /\ cycle_sink' = IF pc = "query_first" THEN before
                               ELSE IF pc = "query_more" THEN cycle_sink \cup before
                               ELSE cycle_sink
    /\ pc' = "down"
    /\ UNCHANGED <<fetchVars, restVars>>
    /\ UNCHANGED <<today, passed_over, labels, items_per_batch, blob, checkpoint, response,
                   max_values, bootstrapped>>

\* the put of the checkpoint raises (lines 102, 137, 150), or the process
\* dies between process_response_items and the put: the whole batch is in
\* the graph, the checkpoint object is the one of the batch before, and the
\* process ends
put_failure ==
    /\ pc \in {"index_more", "query_first", "query_more"}
    /\ LET batch == Range(NextResponse.Items)
       IN  /\ sink' = sink \cup batch
           /\ redelivered' = redelivered \cup (batch \cap sink)
           /\ cycle_sink' = IF pc = "query_first" THEN batch
                            ELSE IF pc = "query_more" THEN cycle_sink \cup batch
                            ELSE cycle_sink
    /\ pc' = "down"
    /\ UNCHANGED <<fetchVars, restVars>>
    /\ UNCHANGED <<today, passed_over, labels, items_per_batch, blob, checkpoint, response,
                   max_values, bootstrapped>>

\* the process is killed between two steps
crash ==
    /\ pc # "down"
    /\ pc' = "down"
    /\ UNCHANGED <<fetchVars, restVars>>
    /\ UNCHANGED <<today, passed_over, labels, items_per_batch, blob, checkpoint, response,
                   max_values, sink, cycle_sink, redelivered, bootstrapped>>

\* the program is started again: main from its first line
restart ==
    /\ pc = "down"
    /\ pc' = "fetch"
    /\ checkpoint' = <<>>
    /\ response' = NoResponse
    /\ max_values' = EmptyMax
    /\ bootstrapped' = FALSE
    /\ UNCHANGED <<fetchVars, restVars>>
    /\ redelivered' = {}
    /\ UNCHANGED <<today, passed_over, labels, items_per_batch, blob, sink, cycle_sink>>

\* midnight passes
next_day ==
    /\ today < LastDay + 1
    /\ today' = today + 1
    /\ UNCHANGED <<fetchVars, restVars>>
    /\ UNCHANGED ingestVars

NextIngest ==
    \/ fetch_checkpoint
    \/ fetch_checkpoint_client_error
    \/ fetch_checkpoint_value_error
    \/ get_full_scan_data_first
    \/ get_full_scan_data_more
    \/ get_scan_with_capture_date_first
    \/ get_scan_with_capture_date_more
    \/ get_query_items_since_checkpoint_first
    \/ get_query_items_since_checkpoint_more
    \/ main_sleep
    \/ sink_failure
    \/ malformed_record
    \/ put_failure
    \/ crash
    \/ restart
    \/ next_day

SpecIngest == InitIngest /\ [][NextIngest]_vars

\* ------------------------------------------- two instances of the engine
\* Nothing in labels_to_graph.py keeps a second process from being started
\* on the same table and the same checkpoint object. The second instance is
\* main's loop again, followed on its catch-up path; its reads and writes of
\* the table, the checkpoint object and the graph are the first one's.

\* what a run that left checkpoint cp behind has handed to the graph
DeliveredUpTo(store, cp) ==
    { r \in store : /\ r.capture_date = cp.max_capture_date
                    /\ r.event_ts <= cp.max_timestamp }

InitTwo ==
    /\ HandlerIdle
    /\ pidfile = <<>>
    /\ uploader = [p \in Processes |-> [pc |-> "off", created |-> <<>>]]
    /\ camera_info = <<>>
    /\ invocation = [i \in Invocations |-> [pc |-> "off"]]
    /\ labels \in { S \in SUBSET LabelRecords : Cardinality(S) <= MaxRecords }
    /\ items_per_batch \in {1, MaxBatch}
    /\ today \in { d \in 1..(LastDay + 1) :
                     \A r \in labels : /\ r.capture_date <= d
                                       /\ DateOf(r.event_ts) <= d }
    /\ blob \in { <<cp>> : cp \in LeftBehind(labels, today) }
    /\ pc = "fetch"
    /\ checkpoint = <<>>
    /\ response = NoResponse
    /\ max_values = EmptyMax
    /\ sink = DeliveredUpTo(labels, blob[1])
    /\ cycle_sink = {}
    /\ redelivered = {}
    /\ bootstrapped = FALSE
    /\ passed_over = {}
    /\ peer = [PeerOff EXCEPT !.pc = "fetch"]

\* fetch_checkpoint of the second instance (lines 24, 155-161)
peer_fetch_checkpoint ==
    /\ peer.pc = "fetch"
    /\ blob # <<>> /\ blob # <<Unparseable>>
    /\ peer' = [pc |-> "query_first", checkpoint |-> blob,
                response |-> NoResponse, max_values |-> EmptyMax]
    /\ UNCHANGED <<today, ingestVars, fetchVars, pidVars, metaVars>>

\* get_query_items_since_checkpoint of the second instance up to its first
\* put (lines 113-137)
peer_get_query_items_since_checkpoint_first ==
    /\ peer.pc = "query_first"
    /\ LET resp == IndexQuery(peer.checkpoint[1], <<>>, items_per_batch)
           mv   == day_boundary(resp,
                                process_response_items(resp, peer.checkpoint[1]),
                                today)
       IN  /\ sink' = sink \cup Range(resp.Items)
           /\ blob' = <<mv>>
           /\ passed_over' = passed_over \cup PassedOver(peer.checkpoint[1], mv)
           /\ peer' = [peer EXCEPT
                         !.response = resp,
                         !.max_values = mv,
                         !.pc = IF resp.LastEvaluatedKey # <<>>
                                THEN "query_more" ELSE "sleep"]
    /\ UNCHANGED <<today, labels, items_per_batch, pc, checkpoint, response,
                   max_values, cycle_sink, redelivered, bootstrapped>>
    /\ UNCHANGED <<fetchVars, pidVars, metaVars>>

\* one turn of the second instance's while loop (lines 138-150)
peer_get_query_items_since_checkpoint_more ==
    /\ peer.pc = "query_more"
    /\ LET resp == IndexQuery(peer.checkpoint[1], peer.response.LastEvaluatedKey,
                              items_per_batch)
           mv   == process_response_items(resp, peer.checkpoint[1])
       IN  /\ sink' = sink \cup Range(resp.Items)
           /\ blob' = <<mv>>
           /\ peer' = [peer EXCEPT
                         !.response = resp,
                         !.max_values = mv,
                         !.pc = IF resp.LastEvaluatedKey # <<>>
                                THEN "query_more" ELSE "sleep"]
    /\ UNCHANGED <<today, passed_over, labels, items_per_batch, pc, checkpoint, response,
                   max_values, cycle_sink, redelivered, bootstrapped>>
    /\ UNCHANGED <<fetchVars, pidVars, metaVars>>

\* time.sleep(300) of the second instance (lines 48, 23)
peer_main_sleep ==
    /\ peer.pc = "sleep"
    /\ peer' = [peer EXCEPT !.pc = "fetch"]
    /\ UNCHANGED <<today, ingestVars, fetchVars, pidVars, metaVars>>

NextTwo ==
    \/ fetch_checkpoint
    \/ get_query_items_since_checkpoint_first
    \/ get_query_items_since_checkpoint_more
    \/ main_sleep
    \/ peer_fetch_checkpoint
    \/ peer_get_query_items_since_checkpoint_first
    \/ peer_get_query_items_since_checkpoint_more
    \/ peer_main_sleep
    \/ next_day

SpecTwo == InitTwo /\ [][NextTwo]_vars



\* ------------------------------------- the engine beside the label producer
\* security_cam_image_added.py writes the labels of an image while the engine
\* runs. The engine is main's loop without failures; the table starts empty
\* and no checkpoint exists.
InitProduce ==
    /\ HandlerIdle
    /\ RestIdle
    /\ labels = {}
    /\ items_per_batch \in {1, MaxBatch}
    /\ today = 1
    /\ blob = <<>>
    /\ pc = "fetch"
    /\ checkpoint = <<>>
    /\ response = NoResponse
    /\ max_values = EmptyMax
    /\ sink = {}
    /\ cycle_sink = {}
    /\ redelivered = {}
    /\ bootstrapped = FALSE
    /\ passed_over = {}

\* write_labels_to_dynamo, one put_item of its loop (lines 88-97): the next
\* label of an image whose labels are being written, with that image's
\* capture_date and event_ts, or the first label of a new image. Images
\* arrive in the order of their timestamps, and no image is dated after the
\* day it is written on.
write_labels_to_dynamo(r) ==
    /\ r \notin labels
    /\ Cardinality(labels) < MaxRecords
    /\ r.capture_date <= today
    /\ DateOf(r.event_ts) <= today
    /\ \/ \E q \in labels : /\ q.capture_date = r.capture_date
                            /\ q.event_ts = r.event_ts
       \/ \A q \in labels : q.event_ts < r.event_ts
    /\ labels' = labels \cup {r}
    /\ UNCHANGED <<today, passed_over, items_per_batch, blob, pc, checkpoint, response,
                   max_values, sink, cycle_sink, redelivered, bootstrapped>>
    /\ UNCHANGED <<fetchVars, restVars>>

\* the steps of main's loop
EngineStep ==
    \/ fetch_checkpoint
    \/ get_full_scan_data_first
    \/ get_full_scan_data_more
    \/ get_scan_with_capture_date_first
    \/ get_scan_with_capture_date_more
    \/ get_query_items_since_checkpoint_first
    \/ get_query_items_since_checkpoint_more
    \/ main_sleep

NextProduce ==
    \/ fetch_checkpoint
    \/ get_full_scan_data_first
    \/ get_full_scan_data_more
    \/ get_scan_with_capture_date_first
    \/ get_scan_with_capture_date_more
    \/ get_query_items_since_checkpoint_first
    \/ get_query_items_since_checkpoint_more
    \/ main_sleep
    \/ \E r \in LabelRecords : write_labels_to_dynamo(r)
    \/ next_day

\* main is a sequential `while True` loop: a step it can take stays enabled
\* until it is taken, and the process takes it.
SpecProduce == InitProduce /\ [][NextProduce]_vars /\ WF_vars(EngineStep)

\* ------------------------------------------------- the video query handler
\* Optional values (None in the source) are <<>> or <<v>>.
VideoDays == 1..3
CameraNames == { <<"f", "d">>, <<"d">> }

\* security_cam_video_added.lambda_handler writes one item, with capture_date,
\* event_ts and camera_name, to both tables; event_ts is the sort key of each.
VideoRecords ==
    { r \in [capture_date : VideoDays, event_ts : 2..7, camera_name : CameraNames] :
        r.event_ts \div 2 = r.capture_date }

\* camera_metadata['filters'] of camera-info.json; the file is edited by
\* hand, so an entry can carry an operator the handler does not know
Filters ==
    [ front |-> [operator |-> "contains", value |-> <<"f">>],
      back  |-> [operator |-> "not_contains", value |-> <<"f">>],
      drive |-> [operator |-> "in", value |-> { <<"d">> }],
      yard  |-> [operator |-> "starts_with", value |-> <<"f">>] ]

FilterNames == {"front", "back", "drive", "yard"}

\* the filter names a caller can send: the catalog's and one it does not hold
RequestedFilters == FilterNames \cup {"attic"}

\* a query-string value that int() rejects (lines 86-93)
NaN == -1

\* lines 86-93: int(value), or None when int() raises or the value is absent
int_or_none(value) == IF value = <<NaN>> THEN <<>> ELSE value

\* Attr('camera_name').contains(value): value is a substring of the name
contains(name, value) ==
    \E i \in 1..(Len(name) - Len(value) + 1) :
        SubSeq(name, i, i + Len(value) - 1) = value

\* what line 101 leaves when the catalog does not hold the name
KeyError == [operator |-> "KeyError", value |-> <<>>]

\* line 101 with .get(filter_name) in place of the subscript: no filter
filter_expression_of_get(qs) ==
    IF qs.filter = <<>> \/ qs.filter[1] \notin FilterNames THEN <<>>
    ELSE LET this_filter == Filters[qs.filter[1]]
         IN  IF this_filter.operator \in {"in", "not_contains", "contains"}
             THEN <<this_filter>> ELSE <<>>

\* lines 95-109: the FilterExpression built from the named filter
filter_expression_of(qs) ==
    IF qs.filter = <<>> THEN <<>>
    ELSE IF qs.filter[1] \notin FilterNames THEN <<KeyError>>
    ELSE LET this_filter == Filters[qs.filter[1]]
         IN  IF this_filter.operator = "in" THEN <<this_filter>>
             ELSE IF this_filter.operator = "not_contains" THEN <<this_filter>>
             ELSE IF this_filter.operator = "contains" THEN <<this_filter>>
             ELSE <<>>

raised(fe) == fe # <<>> /\ fe[1].operator = "KeyError"

\* DynamoDB's evaluation of that FilterExpression on one item
passes(fe, r) ==
    CASE fe.operator = "contains"     -> contains(r.camera_name, fe.value)
      [] fe.operator = "not_contains" -> ~contains(r.camera_name, fe.value)
      [] fe.operator = "in"           -> r.camera_name \in fe.value

RECURSIVE SortByEventTs(_, _)
SortByEventTs(S, scan_forward) ==
    IF S = {} THEN <<>>
    ELSE LET m == CHOOSE r \in S : \A q \in S :
                     IF scan_forward THEN r.event_ts <= q.event_ts
                                     ELSE r.event_ts >= q.event_ts
         IN  <<m>> \o SortByEventTs(S \ {m}, scan_forward)

\* table.query(KeyConditionExpression, [FilterExpression,] ScanIndexForward, Limit)
Query(partition, older, newer, limit, fe) ==
    LET inRange == { r \in partition :
                       IF older # <<>> THEN r.event_ts < older[1]
                       ELSE IF newer # <<>> THEN r.event_ts > newer[1]
                       ELSE TRUE }
        scan_forward == older = <<>> /\ newer # <<>>
    IN  Page(SortByEventTs(inRange, scan_forward), limit,
             { r \in partition : fe = <<>> \/ passes(fe[1], r) })

by_camera(camera_name, date) == camera_name # <<>> /\ date = <<>>

\* query_videos (lines 221-281); LastEvaluatedKey is the key of the last
\* item evaluated: the table's partition key and event_ts
query_videos(camera_name, date, fe, num_results, older, newer) ==
    IF by_camera(camera_name, date)
    THEN LET page == Query({ r \in videos : r.camera_name = camera_name[1] },
                           older, newer, num_results, <<>>)
         IN  [page EXCEPT !.LastEvaluatedKey =
                IF @ = <<>> THEN <<>>
                ELSE <<[camera_name |-> @[1].camera_name, event_ts |-> @[1].event_ts]>>]
    ELSE LET day  == IF date = <<>> THEN today ELSE date[1]
             page == Query({ r \in videos : r.capture_date = day },
                           older, newer,
                           IF fe # <<>> THEN FilterLimit ELSE num_results, fe)
         IN  [page EXCEPT !.LastEvaluatedKey =
                IF @ = <<>> THEN <<>>
                ELSE <<[capture_date |-> @[1].capture_date, event_ts |-> @[1].event_ts]>>]

\* the partition query_videos reads
partition_of(camera_name, date) ==
    IF by_camera(camera_name, date) THEN camera_name[1]
    ELSE IF date = <<>> THEN today ELSE date[1]

OptionalOf(S) == {<<>>} \cup { <<v>> : v \in S }

\* the requests: path parameter camera, query-string parameters video_date,
\* num_results, older_than_ts, newer_than_ts (at most one of the two) and filter
Requests ==
    { e \in [camera : OptionalOf(CameraNames),
             video_date : OptionalOf(VideoDays \ {1}),
             num_results : 1..MaxNumResults,
             older_than_ts : OptionalOf({5, 7, NaN}),
             newer_than_ts : OptionalOf({4, 5, NaN}),
             filter : OptionalOf(RequestedFilters)] :
        e.older_than_ts = <<>> \/ e.newer_than_ts = <<>> }

\* no two items of a table share its key (camera_name or capture_date, event_ts)
VideoStores ==
    { S \in SUBSET VideoRecords :
        /\ Cardinality(S) <= MaxVideos
        /\ \A r, q \in S : r.event_ts = q.event_ts => r = q }

EngineIdle ==
    /\ labels = {}
    /\ items_per_batch = 1
    /\ blob = <<>>
    /\ pc = "idle"
    /\ checkpoint = <<>>
    /\ response = NoResponse
    /\ max_values = EmptyMax
    /\ sink = {}
    /\ cycle_sink = {}
    /\ redelivered = {}
    /\ bootstrapped = FALSE
    /\ passed_over = {}

InitFetch ==
    /\ EngineIdle
    /\ RestIdle
    /\ today = 3
    /\ videos \in VideoStores
    /\ event \in Requests
    /\ hpc = "start"
    /\ video_date = <<>>
    /\ older_than_ts = <<>>
    /\ ddb_response = NoResponse
    /\ consolidated_response = NoResponse
    /\ request_num = 0
    /\ left_to_fetch = 0
    /\ fetch_more_than_one = FALSE
    /\ queries = <<>>

\* lines 144-147: extend the consolidated response by the last store response
extend(consolidated, ddb) ==
    [consolidated EXCEPT !.Items = @ \o ddb.Items,
                         !.Count = @ + ddb.Count]

\* lines 57-61
EmptyConsolidated == [Items |-> <<>>, Count |-> 0, LastEvaluatedKey |-> <<>>]

\* lambda_handler from the parsing of the request to the head of the while
\* loop (lines 63-149)
handler_first_request ==
    /\ hpc = "start"
    /\ ~raised(filter_expression_of(event))
    /\ LET date == IF event.camera = <<>> /\ event.video_date = <<>>
                   THEN <<today>> ELSE event.video_date
           older == int_or_none(event.older_than_ts)
           newer == int_or_none(event.newer_than_ts)
           fe   == filter_expression_of(event)
           ddb  == query_videos(event.camera, date, fe, event.num_results,
                                older, newer)
           more == ddb.Count < event.num_results /\ newer = <<>>
           \* line 140: without fetch_more_than_one the consolidated response
           \* is the store response itself, which line 144 then extends by itself
           cons == extend(IF more THEN EmptyConsolidated ELSE ddb, ddb)
       IN  /\ video_date' = date
           /\ older_than_ts' = older
           /\ ddb_response' = ddb
           /\ fetch_more_than_one' = more
           /\ consolidated_response' = cons
           /\ request_num' = 1
           /\ left_to_fetch' = event.num_results - cons.Count
           /\ queries' = <<partition_of(event.camera, date)>>
           /\ hpc' = IF cons.Count < event.num_results /\ more THEN "loop" ELSE "finish"
    /\ UNCHANGED <<today, videos, event>>
    /\ UNCHANGED <<ingestVars, restVars>>

\* line 101: camera_metadata['filters'][filter_name] raises KeyError for a
\* name the catalog does not hold; nothing catches it and the invocation
\* fails before any query
handler_unknown_filter ==
    /\ hpc = "start"
    /\ raised(filter_expression_of(event))
    /\ hpc' = "error"
    /\ UNCHANGED <<today, videos, event, video_date, older_than_ts, ddb_response,
                   consolidated_response, request_num, left_to_fetch,
                   fetch_more_than_one, queries>>
    /\ UNCHANGED <<ingestVars, restVars>>

\* the previous calendar day (lines 173-175, 206-208)
prev_day(date) == date - 1

\* one turn of the while loop (lines 151-200)
handler_loop ==
    /\ hpc = "loop"
    /\ request_num < MaxRequests
    /\ LET fe == filter_expression_of(event)
           continue == ddb_response.LastEvaluatedKey # <<>>
           rollover == ~continue /\ event.camera = <<>> /\ video_date # <<>>
           date == IF rollover THEN <<prev_day(video_date[1])>> ELSE video_date
           older == IF continue THEN <<ddb_response.LastEvaluatedKey[1].event_ts>>
                    ELSE IF rollover THEN <<>> ELSE older_than_ts
           ddb  == IF continue \/ rollover
                   THEN query_videos(event.camera, date, fe, left_to_fetch,
                                     older, int_or_none(event.newer_than_ts))
                   ELSE ddb_response
           cons == extend(consolidated_response, ddb)
       IN  /\ video_date' = date
           /\ older_than_ts' = older
           /\ ddb_response' = ddb
           /\ consolidated_response' = cons
           /\ request_num' = request_num + 1
           /\ left_to_fetch' = event.num_results - cons.Count
           /\ queries' = IF continue \/ rollover
                         THEN Append(queries, partition_of(event.camera, date))
                         ELSE queries
           /\ hpc' = IF cons.Count >= event.num_results THEN "finish" ELSE "loop"
    /\ UNCHANGED <<today, videos, event, fetch_more_than_one>>
    /\ UNCHANGED <<ingestVars, restVars>>

\* after the loop (lines 202-218): the cursor of the response; strptime of a
\* video_date that is None raises
handler_finish ==
    /\ hpc = "finish"
    /\ IF ~fetch_more_than_one
       THEN /\ hpc' = "done"
            /\ UNCHANGED <<video_date, consolidated_response>>
       ELSE IF ddb_response.LastEvaluatedKey # <<>>
       THEN /\ hpc' = "done"
            /\ consolidated_response' =
                 [consolidated_response EXCEPT
                    !.LastEvaluatedKey = ddb_response.LastEvaluatedKey]
            /\ UNCHANGED video_date
       ELSE IF video_date = <<>>
       THEN /\ hpc' = "error"
            /\ UNCHANGED <<video_date, consolidated_response>>
       ELSE /\ hpc' = "done"
            /\ video_date' = <<prev_day(video_date[1])>>
            /\ consolidated_response' =
                 [consolidated_response EXCEPT
                    !.LastEvaluatedKey = <<[capture_date |-> prev_day(video_date[1])]>>]
    /\ UNCHANGED <<today, videos, event, older_than_ts, ddb_response, request_num,
                   left_to_fetch, fetch_more_than_one, queries>>
    /\ UNCHANGED <<ingestVars, restVars>>

NextFetch ==
    \/ handler_first_request
    \/ handler_unknown_filter
    \/ handler_loop
    \/ handler_finish

SpecFetch == InitFetch /\ [][NextFetch]_vars

\* ------------------------------------------ the uploader's start (ftpfiletos3.py)
\* The file app_pid_file is <<>> when it does not exist and <<content>> when
\* it does; the content is <<>> for an empty file and <<pid>> for a written
\* one. Process p has pid p; 0 is the pid of a run that left its file behind.
StalePid == 0

InitPid ==
    /\ EngineIdle
    /\ peer = PeerOff
    /\ HandlerIdle
    /\ today = 1
    /\ camera_info = <<>>
    /\ invocation = [i \in Invocations |-> [pc |-> "off"]]
    /\ pidfile \in {<<>>, << <<StalePid>> >>}
    /\ uploader \in [Processes -> { [pc |-> "off", created |-> <<>>],
                                    [pc |-> "main", created |-> <<>>] }]

\* os.path.isfile(pidfile) (line 149)
os_path_isfile_never(file) == FALSE

os_path_isfile(file) == file # <<>>

\* main up to the call of create_pid_file (lines 29-37): a missing or
\* invalid configuration, or a logger that cannot be set up, ends the process
main_setup(p) ==
    /\ uploader[p].pc = "main"
    /\ \E ok \in BOOLEAN :
          uploader' = [uploader EXCEPT ![p].pc = IF ok THEN "isfile" ELSE "exited"]
    /\ UNCHANGED <<today, ingestVars, fetchVars, peerVars, metaVars, pidfile>>

\* create_pid_file, the existence check (lines 146-152)
create_pid_file_isfile(p) ==
    /\ uploader[p].pc = "isfile"
    /\ uploader' = IF os_path_isfile(pidfile)
                   THEN [uploader EXCEPT ![p] = [pc |-> "returned", created |-> <<FALSE>>]]
                   ELSE [uploader EXCEPT ![p].pc = "open"]
    /\ UNCHANGED <<today, ingestVars, fetchVars, peerVars, metaVars, pidfile>>

\* open(pidfile, 'w') (line 154): creates the file, or truncates the one
\* that is there by now
create_pid_file_open(p) ==
    /\ uploader[p].pc = "open"
    /\ pidfile' = << <<>> >>
    /\ uploader' = [uploader EXCEPT ![p].pc = "write"]
    /\ UNCHANGED <<today, ingestVars, fetchVars, peerVars, metaVars>>

\* open raises IOError (lines 159-161): no such directory, no permission
create_pid_file_io_error(p) ==
    /\ uploader[p].pc = "open"
    /\ uploader' = [uploader EXCEPT ![p] = [pc |-> "returned", created |-> <<FALSE>>]]
    /\ UNCHANGED <<today, ingestVars, fetchVars, peerVars, metaVars, pidfile>>

\* write(pid), close() and return True (lines 155-157)
create_pid_file_write(p) ==
    /\ uploader[p].pc = "write"
    /\ pidfile' = << <<p>> >>
    /\ uploader' = [uploader EXCEPT ![p] = [pc |-> "returned", created |-> <<TRUE>>]]
    /\ UNCHANGED <<today, ingestVars, fetchVars, peerVars, metaVars>>

\* main after create_pid_file (lines 40-46): sys.exit(), or the start of the
\* log-reader thread
main_start_thread(p) ==
    /\ uploader[p].pc = "returned"
    /\ uploader' = [uploader EXCEPT ![p].pc =
                      IF uploader[p].created = <<TRUE>> THEN "log-reader" ELSE "exited"]
    /\ UNCHANGED <<today, ingestVars, fetchVars, peerVars, metaVars, pidfile>>

NextPid ==
    \/ \E p \in Processes : main_setup(p)
    \/ \E p \in Processes : create_pid_file_isfile(p)
    \/ \E p \in Processes : create_pid_file_open(p)
    \/ \E p \in Processes : create_pid_file_io_error(p)
    \/ \E p \in Processes : create_pid_file_write(p)
    \/ \E p \in Processes : main_start_thread(p)

SpecPid == InitPid /\ [][NextPid]_vars

\* ------------------- camera-info.json (security_cam_video_added.py)
\* One invocation of lambda_handler per uploaded video: it writes the video's
\* item to the tables, reads camera-info.json, sets the camera's entry of
\* 'camera-last-video' in its copy and writes the copy back. camera_info is
\* the 'camera-last-video' map of the object.

\* the divisor of line 88 (1000), scaled to the model's timestamps
MsPerSecond == 2

\* str(int(int(event_ts) / 1000)) (line 88)
last_video_of(event_ts) == event_ts \div MsPerSecond

InitMeta ==
    /\ EngineIdle
    /\ peer = PeerOff
    /\ HandlerIdle
    /\ today = 3
    /\ pidfile = <<>>
    /\ uploader = [p \in Processes |-> [pc |-> "off", created |-> <<>>]]
    /\ camera_info = [c \in CameraNames |-> 0]
    /\ invocation \in
          { inv \in [Invocations -> [pc : {"start"}, video : VideoRecords,
                                     small : BOOLEAN, camera_info : {<<>>}]] :
              \A i, j \in Invocations :
                  i # j => inv[i].video.event_ts # inv[j].video.event_ts }

\* lambda_handler up to the writes of the item (lines 15-84); a key ending in
\* "-small.mp4" is not processed (lines 35, 91)
video_added_put_item(i) ==
    /\ invocation[i].pc = "start"
    /\ IF invocation[i].small
       THEN /\ invocation' = [invocation EXCEPT ![i].pc = "done"]
            /\ UNCHANGED videos
       ELSE /\ invocation' = [invocation EXCEPT ![i].pc = "get"]
            /\ videos' = { q \in videos : q.event_ts # invocation[i].video.event_ts }
                            \cup {invocation[i].video}
    /\ UNCHANGED <<today, ingestVars, peerVars, pidVars, camera_info>>
    /\ UNCHANGED <<event, hpc, video_date, older_than_ts, ddb_response,
                   consolidated_response, request_num, left_to_fetch,
                   fetch_more_than_one, queries>>

\* camera_info = get_s3_camera_metadata() (lines 87, 142-150)
get_s3_camera_metadata(i) ==
    /\ invocation[i].pc = "get"
    /\ invocation' = [invocation EXCEPT ![i].pc = "put",
                                        ![i].camera_info = camera_info]
    /\ UNCHANGED <<today, ingestVars, fetchVars, peerVars, pidVars, camera_info>>

\* the update of the copy and put_s3_camera_metadata(camera_info)
\* (lines 88-89, 152-157): the object is replaced by the copy
put_s3_camera_metadata(i) ==
    /\ invocation[i].pc = "put"
    /\ camera_info' =
          [invocation[i].camera_info EXCEPT
             ![invocation[i].video.camera_name] =
                 last_video_of(invocation[i].video.event_ts)]
    /\ invocation' = [invocation EXCEPT ![i].pc = "done"]
    /\ UNCHANGED <<today, ingestVars, fetchVars, peerVars, pidVars>>

NextMeta ==
    \/ \E i \in Invocations : video_added_put_item(i)
    \/ \E i \in Invocations : get_s3_camera_metadata(i)
    \/ \E i \in Invocations : put_s3_camera_metadata(i)

SpecMeta == InitMeta /\ [][NextMeta]_vars

\* ------------------------------------------------------- claims, ingestion
MaxTs(S) == CHOOSE t \in { r.event_ts : r \in S } : \A r \in S : r.event_ts <= t

NewRecords(cp) ==
    { r \in labels : r.capture_date = cp.max_capture_date
                     /\ r.event_ts > cp.max_timestamp }

\* C1: a catch-up call started from checkpoint (D, T) that ran to its end has
\* handed the sink exactly the records of partition D with sort key > T, and
\* the persisted max_timestamp is the highest sort key handed over.
C1_ResumeBound ==
    pc = "sleep" =>
        /\ cycle_sink = NewRecords(checkpoint[1])
        /\ cycle_sink # {} => blob[1].max_timestamp = MaxTs(cycle_sink)

\* C2: over every write of the checkpoint, max_capture_date never moves to an
\* earlier date, and max_timestamp never decreases while the date is unchanged.
C2_Step ==
    (blob # <<>> /\ blob' # <<>>) =>
        /\ blob'[1].max_capture_date >= blob[1].max_capture_date
        /\ blob'[1].max_capture_date = blob[1].max_capture_date
              => blob'[1].max_timestamp >= blob[1].max_timestamp

C2_CheckpointMonotone == [][C2_Step]_vars

\* C3: a catch-up call whose query returns zero records persists the
\* checkpoint with max_capture_date moved to the current date when the
\* checkpoint's max_capture_date is earlier than the current date, and
\* persists it unchanged otherwise; max_timestamp is unchanged either way.
C3_Step ==
    (pc = "query_first" /\ pc' = "sleep" /\ Len(response'.Items) = 0) =>
        blob' = << IF checkpoint[1].max_capture_date < today
                   THEN [checkpoint[1] EXCEPT !.max_capture_date = today]
                   ELSE checkpoint[1] >>

C3_StallAdvance == [][C3_Step]_vars

\* C4: when main found no checkpoint, every record of the table has been
\* handed to the sink, and the last scan returned no LastEvaluatedKey, by the
\* time the first catch-up query is issued.
C4_BootstrapComplete ==
    (pc = "query_first" /\ bootstrapped) =>
        /\ labels \subseteq sink
        /\ response.LastEvaluatedKey = <<>>

C4_Witness ==
    /\ pc = "query_first" /\ bootstrapped
    /\ Cardinality(labels) = MaxRecords
    /\ items_per_batch = 1

\* C5: whenever the engine is stopped by a crash or a sink failure, or is
\* between two cycles, every record of the persisted checkpoint's partition
\* whose sort key is above the cycle's starting checkpoint and not above the
\* persisted max_timestamp has been handed to the sink.
C5_AtLeastOnce ==
    (pc \in {"down", "sleep"} /\ blob # <<>> /\ checkpoint # <<>>) =>
        \A r \in labels :
            ( /\ r.capture_date = blob[1].max_capture_date
              /\ r.event_ts > checkpoint[1].max_timestamp
              /\ r.event_ts <= blob[1].max_timestamp ) => r \in sink

\* C12: a catch-up batch whose records are all in the sink already (the
\* process ended after the delivery and before the checkpoint was put, and
\* the engine resumed from the persisted checkpoint) leaves the sink as it
\* is, and the checkpoint put after it is the one a single processing of the
\* batch gives: the batch's highest sort key in the checkpoint's partition.
C12_Step ==
    ( /\ pc \in {"query_first", "query_more"}
      /\ pc' \in {"query_more", "sleep"}
      /\ response'.Items # <<>>
      /\ Range(response'.Items) \subseteq sink ) =>
        /\ sink' = sink
        /\ blob' = << [max_timestamp |-> MaxTs(Range(response'.Items)),
                       max_capture_date |-> checkpoint[1].max_capture_date] >>

C13_Step == (sink_failure \/ put_failure) => pc' = "sleep"

C13_FailureContained == [][C13_Step]_vars

\* C14: main enters the full load only when the checkpoint object does not
\* exist.
C14_Step == (pc = "fetch" /\ pc' = "full_first") => blob = <<>>

C14_ReadFailureNotAbsent == [][C14_Step]_vars

\* C15: reading a checkpoint object that cannot be parsed takes main into the
\* full load, as an absent object does.
C15_Step == fetch_checkpoint_value_error => pc' = "full_first"

C15_CorruptionBootstraps == [][C15_Step]_vars

\* C16: a step that meets a malformed record in a batch skips that record
\* only: every other record of the batch is in the sink after it, the
\* process goes on, and a catch-up batch leaves a persisted checkpoint.
C16_Step ==
    malformed_record =>
        /\ pc' # "down"
        /\ \E bad \in Range(NextResponse.Items) :
              Range(NextResponse.Items) \ {bad} \subseteq sink'
        /\ pc \in {"query_first", "query_more"} => blob' # <<>>

C16_MalformedSkipped == [][C16_Step]_vars

\* ----------------------------------------------------- claims, the handler
DateBased == event.camera = <<>>
CameraBased == event.camera # <<>> /\ event.video_date = <<>>
Returned == consolidated_response.Items
\* the request's cursors and filter as the handler reads them
older_bound == int_or_none(event.older_than_ts)
newer_bound == int_or_none(event.newer_than_ts)
Wanted(r) ==
    LET fe == filter_expression_of(event)
    IN  fe = <<>> \/ passes(fe[1], r)

\* the records of the days the handler walked that the request asks for
WalkedRecords ==
    { r \in videos :
        /\ r.capture_date \in Range(queries)
        /\ Wanted(r)
        /\ (r.capture_date = queries[1] /\ older_bound # <<>>)
              => r.event_ts < older_bound[1] }

RolledOver ==
    /\ DateBased /\ newer_bound = <<>>
    /\ Len(queries) >= 2
    /\ queries[Len(queries)] # queries[1]

\* C6: a date-based request in the older direction that rolled over to
\* earlier days which together hold at least num_results records answers
\* with exactly num_results items, and the capture_date of its
\* LastEvaluatedKey is the day of the last item.
C6_Rollover ==
    (hpc = "done" /\ RolledOver /\ Cardinality(WalkedRecords) >= event.num_results) =>
        /\ Len(Returned) = event.num_results
        /\ consolidated_response.LastEvaluatedKey # <<>>
        /\ consolidated_response.LastEvaluatedKey[1].capture_date
              = Returned[Len(Returned)].capture_date


\* the partition the request names, and its records beyond the request's bound
RequestedPartition ==
    IF CameraBased THEN { r \in videos : r.camera_name = event.camera[1] }
    ELSE { r \in videos :
             r.capture_date = IF event.video_date = <<>> THEN today
                              ELSE event.video_date[1] }

InBound(r) ==
    /\ older_bound # <<>> => r.event_ts < older_bound[1]
    /\ newer_bound # <<>> => r.event_ts > newer_bound[1]

EachOnce(items, S) ==
    /\ Range(items) = S
    /\ Len(items) = Cardinality(S)

\* C7: a newer_than_ts request queries the requested partition only; when
\* fewer than num_results of its records lie beyond the bound, the response
\* holds exactly those records, each once, and no LastEvaluatedKey.
C7_NoForwardRollover ==
    (hpc = "done" /\ newer_bound # <<>>) =>
        /\ \A i \in 1..Len(queries) : queries[i] = queries[1]
        /\ Cardinality({ r \in RequestedPartition : InBound(r) }) < event.num_results
              => /\ EachOnce(Returned, { r \in RequestedPartition : InBound(r) /\ Wanted(r) })
                 /\ consolidated_response.LastEvaluatedKey = <<>>

\* C8: a camera request whose store response has no LastEvaluatedKey and
\* fewer than num_results items stops there: one query, no further turn of
\* the loop, and a response holding exactly the store's items, each once.
C8_EntityStop ==
    ( /\ CameraBased /\ hpc \notin {"idle", "start"} /\ queries # <<>>
      /\ ddb_response.LastEvaluatedKey = <<>>
      /\ ddb_response.Count < event.num_results ) =>
        /\ Len(queries) = 1
        /\ request_num = 1
        /\ hpc # "error"
        /\ Returned = ddb_response.Items

\* C9: a call makes a bounded number of store round trips: never more than
\* one per requested item and one per day of the store's data.
QueryBudget == MaxNumResults + Cardinality(VideoDays)

C9_BoundedWork == request_num <= QueryBudget

\* the records the request asks for that lie in a partition the handler can
\* still reach in the requested direction
Reachable ==
    { r \in videos :
        /\ Wanted(r)
        /\ \/ r \in RequestedPartition /\ InBound(r)
           \/ /\ DateBased /\ newer_bound = <<>>
              /\ \E q \in RequestedPartition \cup
                          { [capture_date |-> IF event.video_date = <<>> THEN today
                                              ELSE event.video_date[1]] } :
                    r.capture_date < q.capture_date }

\* C10: a response without LastEvaluatedKey has returned every record that
\* can be reached in the requested direction.
C10_Exhaustion ==
    (hpc = "done" /\ consolidated_response.LastEvaluatedKey = <<>>) =>
        Reachable \subseteq Range(Returned)

\* the filter the request names, when the catalog holds it with an operator
\* the handler knows
NamedFilter ==
    IF event.filter # <<>> /\ event.filter[1] \in FilterNames
       /\ Filters[event.filter[1]].operator \in {"contains", "not_contains", "in"}
    THEN <<Filters[event.filter[1]]>> ELSE <<>>

\* the records of the requested partition that match the named filter, in the
\* order of the requested direction
Matching ==
    SortByEventTs({ r \in RequestedPartition :
                      InBound(r) /\ passes(NamedFilter[1], r) },
                  older_bound = <<>> /\ newer_bound # <<>>)

\* C11: a response to a request that names a filter holds only records whose
\* camera_name satisfies the filter's predicate, never more than num_results
\* of them, and, when the requested partition holds at least num_results
\* matching records, exactly the first num_results of them in traversal order.
C11_FilterCorrect ==
    (hpc = "done" /\ NamedFilter # <<>>) =>
        /\ \A i \in 1..Len(Returned) : passes(NamedFilter[1], Returned[i])
        /\ Len(Returned) <= event.num_results
        /\ Len(Matching) >= event.num_results
              => Returned = SubSeq(Matching, 1, event.num_results)

\* C17: a request naming a catalog filter whose operator is none of contains,
\* not_contains and in never ends in a successful response.
C17_UnknownOperator ==
    ( /\ hpc = "done"
      /\ event.filter # <<>> /\ event.filter[1] \in FilterNames ) =>
        Filters[event.filter[1]].operator \in {"contains", "not_contains", "in"}

\* C18: a request naming a filter the catalog does not hold ends in an error,
\* before any store query and with nothing accumulated for a response.
C18_UnknownFilter ==
    ( /\ hpc # "start"
      /\ event.filter # <<>> /\ event.filter[1] \notin FilterNames ) =>
        /\ hpc = "error"
        /\ queries = <<>>
        /\ consolidated_response = EmptyConsolidated

C18_Witness ==
    /\ hpc = "error"
    /\ event.filter = <<"attic">>
    /\ videos # {}

\* C19: a request whose older_than_ts or newer_than_ts cannot be parsed never
\* ends in a successful response.
C19_MalformedCursor ==
    hpc = "done" =>
        /\ event.older_than_ts # <<NaN>>
        /\ event.newer_than_ts # <<NaN>>

\* two items of a response belong to one partition
SamePartition(r, q) ==
    IF CameraBased THEN r.camera_name = q.camera_name
    ELSE r.capture_date = q.capture_date

\* C20: in a response, two items of one partition stand in strictly
\* descending event_ts order (strictly ascending for a newer_than_ts
\* request), and in an older traversal over days no item of an earlier day
\* stands before an item of a later day.
C20_Ordering ==
    hpc = "done" =>
        \A i, j \in 1..Len(Returned) :
            i < j =>
                /\ SamePartition(Returned[i], Returned[j]) =>
                      IF older_bound = <<>> /\ newer_bound # <<>>
                      THEN Returned[i].event_ts < Returned[j].event_ts
                      ELSE Returned[i].event_ts > Returned[j].event_ts
                /\ (newer_bound = <<>> /\ ~CameraBased) =>
                      Returned[i].capture_date >= Returned[j].capture_date

\* the last key of the capture_date-event_ts-index: the latest partition and
\* the highest sort key in it
LastIndexKey(S) ==
    LET r == CHOOSE r \in S : \A q \in S :
                 \/ q.capture_date < r.capture_date
                 \/ q.capture_date = r.capture_date /\ q.event_ts <= r.event_ts
    IN  [max_timestamp |-> r.event_ts, max_capture_date |-> r.capture_date]

\* C23: when the full load of a non-empty table has ended and the first
\* catch-up query is about to be issued, the checkpoint object exists and
\* holds the maximum (capture_date, event_ts) pair of the index, for every
\* number of pages of the index scan.
C23_BootstrapCheckpoint ==
    (pc = "query_first" /\ bootstrapped /\ labels # {}) =>
        blob = << LastIndexKey(labels) >>

\* the records of the partition the handler queried last
LastPartition ==
    IF CameraBased THEN { r \in videos : r.camera_name = event.camera[1] }
    ELSE { r \in videos : r.capture_date = queries[Len(queries)] }

\* the page of that partition's records strictly beyond the last store
\* response's LastEvaluatedKey, in the request's direction, of limit rows
PageAfterKey(limit) ==
    LET ts == ddb_response.LastEvaluatedKey[1].event_ts
        forward == older_bound = <<>> /\ newer_bound # <<>>
    IN  Query(LastPartition,
              IF forward THEN <<>> ELSE <<ts>>,
              IF forward THEN <<ts>> ELSE <<>>,
              limit, filter_expression_of(event))

\* C24: while the accumulated count is below num_results and the last store
\* response carried a LastEvaluatedKey, the handler's next step is one more
\* query of the same partition that resumes strictly after that key, in the
\* older and in the newer direction, with a raw page size of num_results
\* minus the items accumulated.
C24_Step ==
    ( /\ hpc \in {"loop", "finish"}
      /\ consolidated_response.Count < event.num_results
      /\ ddb_response.LastEvaluatedKey # <<>> ) =>
        /\ queries' = Append(queries, queries[Len(queries)])
        /\ ddb_response'.Items =
              PageAfterKey(event.num_results - consolidated_response.Count).Items

C24_Continuation == [][C24_Step]_vars

\* a record the response's LastEvaluatedKey leaves to the next request
BeyondCursor(r) ==
    /\ consolidated_response.LastEvaluatedKey # <<>>
    /\ LET key == consolidated_response.LastEvaluatedKey[1]
       IN  \/ r.capture_date < key.capture_date
           \/ /\ r.capture_date = key.capture_date
              /\ "event_ts" \in DOMAIN key => r.event_ts < key.event_ts

\* C25: the response to a date-based request without cursor, the first page
\* of an enumeration that goes on from the returned LastEvaluatedKey, holds
\* no record twice, and holds every requested record of the partitions it
\* walked that its LastEvaluatedKey does not leave to the next request.
C25_ExactlyOnce ==
    (hpc = "done" /\ DateBased /\ older_bound = <<>> /\ newer_bound = <<>>) =>
        /\ \A i, j \in 1..Len(Returned) : i # j => Returned[i] # Returned[j]
        /\ \A r \in WalkedRecords : r \in Range(Returned) \/ BeyondCursor(r)

\* C26: the Count of every response equals the number of its Items and is
\* at most num_results, with a filter and without.
C26_ResultBound ==
    hpc = "done" =>
        /\ consolidated_response.Count = Len(Returned)
        /\ consolidated_response.Count <= event.num_results

\* C27: every record a stall advance from day D to the current day N moved
\* the checkpoint past (a record of a day strictly between D and N, or of
\* day N with a sort key not above the carried-over max_timestamp) is
\* eventually handed to the graph. The set of these records only grows and
\* the graph loses nothing, so this is: whenever some of them are not in the
\* graph, a time comes at which all of them are.
C27_NoPermanentSkip ==
    ~(passed_over \subseteq sink) ~> (passed_over \subseteq sink)

\* C28: every label record the producer has written is eventually handed to
\* the graph, also one written after a checkpoint carrying its event_ts was
\* persisted. Neither the table nor the graph loses a record, so this is:
\* whenever records have been written, a time comes at which every record
\* written by then is in the graph.
C28_LabelsDelivered == (labels # {}) ~> (labels \subseteq sink)

\* ------------------------------------------------ claims, the two instances
\* C21: with two instances running against one table and one checkpoint
\* object, the persisted checkpoint is always a pair of a timestamp and a
\* date, and every record of its partition with a sort key not above its
\* max_timestamp has been handed to the graph by one of the instances.
C21_TwoInstances ==
    /\ blob # <<>>
    /\ blob[1] \in [max_timestamp : {0} \cup Timestamps, max_capture_date : 1..today]
    /\ DeliveredUpTo(labels, blob[1]) \subseteq sink

\* --------------------------------------------------- claims, the uploader
\* C22: a call of create_pid_file that finds the PID file returns False and
\* leaves the file as it is; a call whose open fails returns False; a call
\* that writes leaves the file holding its process id and returns True; and
\* main starts the log-reader thread only after create_pid_file returned True.
C22_Step ==
    \A p \in Processes :
        /\ (uploader[p].pc = "isfile" /\ uploader'[p].pc # "isfile" /\ pidfile # <<>>) =>
              /\ uploader'[p].created = <<FALSE>>
              /\ uploader'[p].pc = "returned"
              /\ pidfile' = pidfile
        /\ (uploader[p].pc = "open" /\ uploader'[p].pc = "returned") =>
              uploader'[p].created = <<FALSE>>
        /\ (uploader[p].pc = "write" /\ uploader'[p].pc = "returned") =>
              /\ pidfile' = << <<p>> >>
              /\ uploader'[p].created = <<TRUE>>
        /\ (uploader[p].pc # "log-reader" /\ uploader'[p].pc = "log-reader") =>
              uploader[p].created = <<TRUE>>

C22_PidFileContract == [][C22_Step]_vars

C22_Witness ==
    /\ uploader[1].pc = "log-reader"
    /\ pidfile = << <<1>> >>
    /\ uploader[2] = [pc |-> "exited", created |-> <<FALSE>>]

\* C30: of two uploader processes started while no PID file exists, at most
\* one gets True from create_pid_file and at most one starts its log-reader
\* thread.
C30_SingleInstance ==
    /\ Cardinality({ p \in Processes : uploader[p].created = <<TRUE>> }) <= 1
    /\ Cardinality({ p \in Processes : uploader[p].pc = "log-reader" }) <= 1

\* -------------------------------------------- claims, camera-info.json
\* C29: when two invocations for videos of different cameras have both
\* ended, camera-info.json holds the new camera-last-video value of both
\* cameras.
C29_BothCamerasUpdated ==
    ( /\ \A i \in Invocations : invocation[i].pc = "done" /\ ~invocation[i].small
      /\ \A i, j \in Invocations :
            i # j => invocation[i].video.camera_name # invocation[j].video.camera_name ) =>
        \A i \in Invocations :
            camera_info[invocation[i].video.camera_name]
                = last_video_of(invocation[i].video.event_ts)

====
